---- MODULE Spec2Model ----
(***************************************************************************)
(* Model of app_streamlit.py: the query-interpretation and answer-assembly *)
(* pipeline (extract_states, extract_crop, extract_top_m,                  *)
(* extract_last_n_years, extract_year_from_query,                          *)
(* compute_avg_rainfall_for_years, compute_top_crops_for_state_and_years,  *)
(* district_extremes_for_crop, answer_query).                              *)
(*                                                                         *)
(* Text is a sequence of one-character strings, so that substring tests,   *)
(* regular-expression searches, case conversion and difflib ratios are     *)
(* computed on characters as the Python code computes them.                *)
(***************************************************************************)
EXTENDS Integers, Sequences, FiniteSets, TLC

\* ------------------------------------------------------------------------
\* Characters and Python str methods
\* ------------------------------------------------------------------------
LC == <<"a","b","c","d","e","f","g","h","i","j","k","l","m",
        "n","o","p","q","r","s","t","u","v","w","x","y","z">>
UC == <<"A","B","C","D","E","F","G","H","I","J","K","L","M",
        "N","O","P","Q","R","S","T","U","V","W","X","Y","Z">>
DG == <<"0","1","2","3","4","5","6","7","8","9">>

IsLower(c) == \E i \in 1..26 : LC[i] = c
IsUpper(c) == \E i \in 1..26 : UC[i] = c
IsDigit(c) == \E i \in 1..10 : DG[i] = c
IsAlpha(c) == IsLower(c) \/ IsUpper(c)
IsSpace(c) == c = " "

LowerChar(c) == IF IsUpper(c) THEN LC[CHOOSE i \in 1..26 : UC[i] = c] ELSE c
UpperChar(c) == IF IsLower(c) THEN UC[CHOOSE i \in 1..26 : LC[i] = c] ELSE c

\* code point order of the characters used: ' ' < '-' < digits < upper < lower
Ord(c) == IF c = " " THEN 0
          ELSE IF c = "-" THEN 1
          ELSE IF IsDigit(c) THEN 1 + (CHOOSE i \in 1..10 : DG[i] = c)
          ELSE IF IsUpper(c) THEN 20 + (CHOOSE i \in 1..26 : UC[i] = c)
          ELSE IF IsLower(c) THEN 50 + (CHOOSE i \in 1..26 : LC[i] = c)
          ELSE 100

\* str.lower(), str.upper()
lower(s) == [i \in 1..Len(s) |-> LowerChar(s[i])]
upper(s) == [i \in 1..Len(s) |-> UpperChar(s[i])]
\* str.title(): a letter that follows a non-letter is upper-cased, others lower
title(s) == [i \in 1..Len(s) |->
               IF i = 1 \/ ~IsAlpha(s[i-1]) THEN UpperChar(s[i]) ELSE LowerChar(s[i])]

\* Python's  p in s  for strings
IsSubstr(p, s) == \E i \in 0..(Len(s) - Len(p)) :
                     \A k \in 1..Len(p) : s[i+k] = p[k]

\* Python's  a < b  for strings
StrLess(a, b) ==
    \E i \in 1..(Len(a)+1) :
        /\ \A k \in 1..(i-1) : k <= Len(b) /\ a[k] = b[k]
        /\ \/ (i = Len(a)+1 /\ Len(b) >= i)
           \/ (i <= Len(a) /\ i <= Len(b) /\ Ord(a[i]) < Ord(b[i]))

\* str.strip() on spaces
RECURSIVE strip(_)
strip(s) == IF s = <<>> THEN s
            ELSE IF IsSpace(s[1]) THEN strip(Tail(s))
            ELSE IF IsSpace(s[Len(s)]) THEN strip(SubSeq(s, 1, Len(s)-1))
            ELSE s

\* int() of a run of decimal digits
RECURSIVE ToInt(_)
ToInt(ds) == IF ds = <<>> THEN 0
             ELSE 10 * ToInt(SubSeq(ds, 1, Len(ds)-1))
                  + ((CHOOSE i \in 1..10 : DG[i] = ds[Len(ds)]) - 1)

\* end (exclusive-1, i.e. last index) of the maximal run of characters
\* satisfying a class that starts at index i; i-1 when the run is empty
RECURSIVE RunEnd(_, _, _)
RunEnd(s, i, cls) ==
    IF i > Len(s) THEN i - 1
    ELSE IF (cls = "d" /\ IsDigit(s[i])) \/ (cls = "s" /\ IsSpace(s[i]))
            \/ (cls = "a" /\ IsAlpha(s[i]))
         THEN RunEnd(s, i+1, cls)
         ELSE i - 1

\* re.findall(r"[A-Za-z]+", s)
RECURSIVE findall_words(_, _)
findall_words(s, i) ==
    IF i > Len(s) THEN <<>>
    ELSE IF IsAlpha(s[i])
         THEN <<SubSeq(s, i, RunEnd(s, i, "a"))>>
                 \o findall_words(s, RunEnd(s, i, "a") + 1)
         ELSE findall_words(s, i+1)

\* sorted(S) for a set of strings, and a stable sort by descending length
RECURSIVE SortedStr(_)
SortedStr(S) == IF S = {} THEN <<>>
                ELSE LET m == CHOOSE x \in S : \A y \in S \ {x} : StrLess(x, y)
                     IN  <<m>> \o SortedStr(S \ {m})

\* mutant of ByLenDesc: the names are scanned in sorted order, not longest first
ByLenDescUnsorted(seq) == seq

\* sorted(seq, key=lambda x: -len(x)): stable, longest first
RECURSIVE ByLenDesc(_)
ByLenDesc(seq) ==
    IF seq = <<>> THEN <<>>
    ELSE LET i == CHOOSE k \in 1..Len(seq) :
                     /\ \A j \in 1..Len(seq) : Len(seq[j]) <= Len(seq[k])
                     /\ \A j \in 1..(k-1) : Len(seq[j]) < Len(seq[k])
         IN  <<seq[i]>> \o ByLenDesc(SubSeq(seq, 1, i-1) \o SubSeq(seq, i+1, Len(seq)))

\* ------------------------------------------------------------------------
\* difflib.SequenceMatcher / get_close_matches (no junk: strings < 200 chars)
\* ------------------------------------------------------------------------
\* find_longest_match: longest block a[i+1..i+k] = b[j+1..j+k]; of the longest
\* blocks the one starting earliest in a, and of those the earliest in b
MatchAt(a, b, i, j, k) == /\ i + k <= Len(a) /\ j + k <= Len(b)
                          /\ \A d \in 1..k : a[i+d] = b[j+d]

\* a block of size k starts at offset x of a
BlockFrom(a, b, x, k) == \E j \in 0..(Len(b)-k) : MatchAt(a, b, x, j, k)

MaxOfNat(S) == IF S = {} THEN 0 ELSE CHOOSE k \in S : \A k2 \in S : k2 <= k

MaxBlock(a, b) ==
    MaxOfNat({k \in 1..Len(a) : \E i \in 0..(Len(a)-k) : BlockFrom(a, b, i, k)})

BlockStartB(a, b, i, k) ==
    CHOOSE y \in 0..(Len(b)-k) :
        MatchAt(a, b, i, y, k) /\ \A y2 \in 0..(y-1) : ~MatchAt(a, b, i, y2, k)

BlockStartA(a, b, k) ==
    CHOOSE x \in 0..(Len(a)-k) :
        BlockFrom(a, b, x, k) /\ \A x2 \in 0..(x-1) : ~BlockFrom(a, b, x2, k)

BlockAt(a, b, i, k) == <<i, BlockStartB(a, b, i, k), k>>
BlockOfSize(a, b, k) ==
    IF k = 0 THEN <<0, 0, 0>> ELSE BlockAt(a, b, BlockStartA(a, b, k), k)

find_longest_match(a, b) == BlockOfSize(a, b, MaxBlock(a, b))

\* sum of the sizes of get_matching_blocks(): the longest block, then the
\* pieces left and right of it
RECURSIVE Matches(_, _)
RECURSIVE MatchesAround(_, _, _)
MatchesAround(a, b, m) ==
    IF m[3] = 0 THEN 0
    ELSE m[3]
         + Matches(SubSeq(a, 1, m[1]), SubSeq(b, 1, m[2]))
         + Matches(SubSeq(a, m[1]+m[3]+1, Len(a)), SubSeq(b, m[2]+m[3]+1, Len(b)))

Matches(a, b) ==
    IF a = <<>> \/ b = <<>> THEN 0
    ELSE MatchesAround(a, b, find_longest_match(a, b))

\* ratio() = 2.0*M/T as the pair <<2M, T>>; T > 0 for the strings compared
ratio(a, b) == <<2 * Matches(a, b), Len(a) + Len(b)>>

\* ratio >= cutoff, cutoff given in hundredths (0.75 -> 75, 0.6 -> 60)
RatioAtLeast(r, cutoff) == r[2] > 0 /\ 100 * r[1] >= cutoff * r[2]

\* difflib.get_close_matches(name, choices, n=1, cutoff): the candidates at
\* or above the cutoff, with their ratios; the best by (ratio, string) is taken
CloseSet(name, choices, cutoff) ==
    {c \in {<<ratio(x, name), x>> : x \in choices} : RatioAtLeast(c[1], cutoff)}

\* (score, x) > (score, y) as Python compares the tuples
ScoredGreater(c, d) ==
    \/ c[1][1] * d[1][2] > d[1][1] * c[1][2]
    \/ (c[1][1] * d[1][2] = d[1][1] * c[1][2] /\ StrLess(d[2], c[2]))

BestClose(cands) ==
    IF cands = {} THEN <<>>
    ELSE <<(CHOOSE c \in cands : \A d \in cands \ {c} : ScoredGreater(c, d))[2]>>

\* fuzzy_choice: None is the empty sequence, a match m is <<m>>
fuzzy_choice(name, choices, cutoff) ==
    IF name = <<>> \/ choices = {} THEN <<>>
    ELSE BestClose(CloseSet(name, choices, cutoff))

\* ------------------------------------------------------------------------
\* Text used in datasets and queries
\* ------------------------------------------------------------------------
SP == <<" ">>
Kerala == <<"K","e","r","a","l","a">>
Goa == <<"G","o","a">>
Rice == <<"R","i","c","e">>
Ragi == <<"R","a","g","i">>
KERALA == <<"K","E","R","A","L","A">>
KONKAN_GOA == <<"K","O","N","K","A","N"," ","G","O","A">>
BIHAR == <<"B","I","H","A","R">>
w_kerla == <<"k","e","r","l","a">>
w_goa == <<"g","o","a">>
w_last == <<"l","a","s","t">>
w_years == <<"y","e","a","r","s">>
w_top == <<"t","o","p">>
w_crops == <<"c","r","o","p","s">>
w_highest == <<"h","i","g","h","e","s","t">>
w_district == <<"d","i","s","t","r","i","c","t">>
w_rice == <<"r","i","c","e">>
w_2015 == <<"2","0","1","5">>
w_1 == <<"1">>
w_2 == <<"2">>

\* pandas missing value (NaN) in a numeric column
NaN == -1

\* ------------------------------------------------------------------------
\* State
\* ------------------------------------------------------------------------
VARIABLES
    agri_df,        \* set of rows [State, District, Crop, Crop_Year, Production]
    rain_df,        \* set of rows [SUBDIVISION, YEAR, ANNUAL]
    sub_match,      \* local of compute_avg_rainfall_for_years: <<>> or <<name>>
    query,          \* the text passed to answer_query
    pc,             \* position inside answer_query
    states,         \* found list of extract_states
    crop,           \* extract_crop result: <<>> (None) or <<name>>
    top_m,          \* extract_top_m result
    years,          \* year list used for aggregation
    explicit_year,  \* extract_year_from_query result: <<>> or <<y>>
    li,             \* index of the location whose rainfall is being computed
    yi,             \* index into years of the next year to process
    rain,           \* rain[l]: sequence of [year, val, subset, tier] per year done
    provenance,     \* provenance list of the running compute_avg_rainfall call
    prov_lines,     \* prov_lines of answer_query
    parts,          \* answer lines appended so far
    top,            \* top[l]: top-crops result for location l
    calls,          \* aggregation operations invoked, in order
    result          \* <<>> while running, else <<[text, meta]>>

vars == <<agri_df, rain_df, sub_match, query, pc, states, crop, top_m, years, explicit_year,
          li, yi, rain, provenance, prov_lines, parts, top, calls, result>>

\* ------------------------------------------------------------------------
\* Vocabularies (module level of app_streamlit.py)
\* ------------------------------------------------------------------------
StateSet == {r.State : r \in agri_df}
SubdivSet == {r.SUBDIVISION : r \in rain_df}
CropSet == {r.Crop : r \in agri_df}
STATES == SortedStr(StateSet)
RAIN_SUBDIVS == SortedStr(SubdivSet)
CROPS == SortedStr(CropSet)
AGRI_YEARS == {r.Crop_Year : r \in agri_df} \ {NaN}
RAIN_YEARS == {r.YEAR : r \in rain_df} \ {NaN}

\* x in seq
InSeq(x, seq) == \E i \in 1..Len(seq) : seq[i] = x

\* sorted(set of integers), ascending
RECURSIVE SortedInts(_)
SortedInts(S) == IF S = {} THEN <<>>
                 ELSE LET m == CHOOSE x \in S : \A y \in S : x <= y
                      IN  <<m>> \o SortedInts(S \ {m})

\* ------------------------------------------------------------------------
\* extract_states
\* ------------------------------------------------------------------------
\* one  for s in sorted(names, key=-len)  loop: append each name whose lower
\* case is in qlow and that is not in found; return as soon as 2 are found
RECURSIVE ScanNames(_, _, _)
ScanNames(found, names, qlow) ==
    IF names = <<>> \/ Len(found) >= 2 THEN found
    ELSE IF IsSubstr(lower(names[1]), qlow) /\ ~InSeq(names[1], found)
         THEN ScanNames(Append(found, names[1]), Tail(names), qlow)
         ELSE ScanNames(found, Tail(names), qlow)

\* the  for w in words  loop: fuzzy match of w.title() against STATES
RECURSIVE ScanWords(_, _, _)
RECURSIVE ScanWordsMatch(_, _, _, _)
ScanWordsMatch(found, words, choices, match) ==
    IF match # <<>> /\ ~InSeq(match[1], found)
    THEN ScanWords(Append(found, match[1]), Tail(words), choices)
    ELSE ScanWords(found, Tail(words), choices)

ScanWords(found, words, choices) ==
    IF words = <<>> \/ Len(found) >= 2 THEN found
    ELSE ScanWordsMatch(found, words, choices,
                        fuzzy_choice(title(words[1]), choices, 75))

StatesDirect(q) == ScanNames(<<>>, ByLenDesc(STATES), lower(q))
StatesFuzzy(found, q) == ScanWords(found, findall_words(q, 1), StateSet)
StatesSubdiv(found, q) == ScanNames(found, ByLenDesc(RAIN_SUBDIVS), lower(q))

\* ------------------------------------------------------------------------
\* extract_crop
\* ------------------------------------------------------------------------
RECURSIVE FirstSubstr(_, _)
FirstSubstr(names, qlow) ==
    IF names = <<>> THEN <<>>
    ELSE IF IsSubstr(lower(names[1]), qlow) THEN <<names[1]>>
    ELSE FirstSubstr(Tail(names), qlow)

RECURSIVE FirstFuzzy(_, _)
RECURSIVE FirstFuzzyMatch(_, _, _)
FirstFuzzyMatch(words, choices, match) ==
    IF match # <<>> THEN match ELSE FirstFuzzy(Tail(words), choices)

FirstFuzzy(words, choices) ==
    IF words = <<>> THEN <<>>
    ELSE FirstFuzzyMatch(words, choices, fuzzy_choice(title(words[1]), choices, 75))

OrElse(first, second) == IF first # <<>> THEN first ELSE second

extract_crop(q) ==
    OrElse(FirstSubstr(ByLenDesc(CROPS), lower(q)),
           FirstFuzzy(findall_words(q, 1), CropSet))

\* ------------------------------------------------------------------------
\* regular expression searches
\* ------------------------------------------------------------------------
HasAt(s, i, w) == i + Len(w) - 1 <= Len(s) /\ \A k \in 1..Len(w) : s[i+k-1] = w[k]

\* (19|20)\d{2} matches at index i
YearAt(s, i) == /\ i + 3 <= Len(s)
                /\ (HasAt(s, i, <<"1","9">>) \/ HasAt(s, i, <<"2","0">>))
                /\ IsDigit(s[i+2]) /\ IsDigit(s[i+3])

\* leftmost index of a set of match positions, or 0 when there is no match
FirstIdx(S) == IF S = {} THEN 0 ELSE CHOOSE i \in S : \A j \in S : i <= j

\* last\s+(\d+) at i: the digit run, or <<>> when there is no match at i
LastNDigits(s, i) ==
    IF ~HasAt(s, i, w_last) THEN <<>>
    ELSE LET se == RunEnd(s, i+4, "s")
             de == RunEnd(s, se+1, "d")
         IN  IF se >= i+4 /\ de >= se+1 THEN SubSeq(s, se+1, de) ELSE <<>>
LastNAt(s, i) == LastNDigits(s, i) # <<>>

\* last\s+(\d+)\s+years at i
LastNYearsAt(s, i) ==
    /\ LastNAt(s, i)
    /\ LET se == RunEnd(s, i+4, "s")
           de == RunEnd(s, se+1, "d")
           se2 == RunEnd(s, de+1, "s")
       IN  se2 >= de+1 /\ HasAt(s, se2+1, w_years)

\* top\s+(\d+) at i, and top[-\s]?(\d+) at i: the digit run or <<>>
TopSpDigits(s, i) ==
    IF ~HasAt(s, i, w_top) THEN <<>>
    ELSE LET se == RunEnd(s, i+3, "s")
             de == RunEnd(s, se+1, "d")
         IN  IF se >= i+3 /\ de >= se+1 THEN SubSeq(s, se+1, de) ELSE <<>>
TopSpAt(s, i) == TopSpDigits(s, i) # <<>>

TopOptDigits(s, i) ==
    IF ~HasAt(s, i, w_top) THEN <<>>
    ELSE LET st == IF i+3 <= Len(s) /\ (s[i+3] = "-" \/ IsSpace(s[i+3]))
                      /\ i+4 <= Len(s) /\ IsDigit(s[i+4])
                   THEN i+4 ELSE i+3
             de == RunEnd(s, st, "d")
         IN  IF de >= st THEN SubSeq(s, st, de) ELSE <<>>
TopOptAt(s, i) == TopOptDigits(s, i) # <<>>

\* extract_top_m(query, default=3)
extract_top_m(q) ==
    LET s == lower(q)
        i == FirstIdx({k \in 1..Len(s) : TopSpAt(s, k)})
        j == FirstIdx({k \in 1..Len(s) : TopOptAt(s, k)})
    IN  IF i # 0 THEN ToInt(TopSpDigits(s, i))
        ELSE IF j # 0 THEN ToInt(TopOptDigits(s, j))
        ELSE 3

\* extract_year_from_query: <<>> (None) or <<year>>
extract_year_from_query(q) ==
    LET i == FirstIdx({k \in 1..Len(q) : YearAt(q, k)})
    IN  IF i = 0 THEN <<>> ELSE <<ToInt(SubSeq(q, i, i+3))>>

\* re.findall(r"(19|20)\d{2}", q): the group (19 or 20) of each
\* non-overlapping match, left to right
RECURSIVE findall_year_groups(_, _)
findall_year_groups(q, i) ==
    IF i > Len(q) THEN <<>>
    ELSE IF YearAt(q, i)
         THEN <<ToInt(SubSeq(q, i, i+1))>> \o findall_year_groups(q, i+4)
         ELSE findall_year_groups(q, i+1)

Min(a, b) == IF a < b THEN a ELSE b
Max(a, b) == IF a > b THEN a ELSE b

\* the N of the "last N" phrase, before clamping; default when absent
LastN(q, default) ==
    LET s == lower(q)
        i == FirstIdx({k \in 1..Len(s) : LastNYearsAt(s, k)})
        j == FirstIdx({k \in 1..Len(s) : LastNAt(s, k)})
    IN  IF i # 0 THEN ToInt(LastNDigits(s, i))
        ELSE IF j # 0 THEN ToInt(LastNDigits(s, j))
        ELSE default

\* mutant of LastOf: the n oldest years are taken
LastOfOldest(seq, n) == SubSeq(seq, 1, IF n < Len(seq) THEN n ELSE Len(seq))

\* the last n entries of an ascending sequence
LastOf(seq, n) == SubSeq(seq, Max(1, Len(seq) - n + 1), Len(seq))

\* extract_last_n_years(query, default=3, limit=10)
extract_last_n_years(q) ==
    LET n == Max(1, Min(LastN(q, 3), 10))
        ys == SortedInts(AGRI_YEARS \cup RAIN_YEARS)
        explicit == findall_year_groups(q, 1)
    IN  IF ys = <<>>
        THEN IF explicit # <<>> THEN <<explicit[Len(explicit)]>> ELSE <<>>
        ELSE LastOf(ys, n)

\* answer_query lines 294-297: the year list after the explicit-year step
ResolveYears(q) ==
    LET ys == extract_last_n_years(q)
        ey == extract_year_from_query(q)
    IN  IF ey # <<>> THEN (IF ys = <<>> THEN <<ey[1]>> ELSE ys) ELSE ys


\* ------------------------------------------------------------------------
\* compute_avg_rainfall_for_years
\* ------------------------------------------------------------------------
\* sub_match (line 213): <<>> or <<subdivision>>
SubMatch(state) == fuzzy_choice(upper(state), SubdivSet, 60)

\* line 221: SUBDIVISION.upper() == sub_match, YEAR == y
ExactRowsOf(sm, y) ==
    IF sm = <<>> THEN {}
    ELSE {r \in rain_df : upper(r.SUBDIVISION) = sm[1] /\ r.YEAR = y}
ExactRows(state, y) == ExactRowsOf(SubMatch(state), y)

\* line 227: SUBDIVISION contains state (case-insensitive), YEAR == y
ContainsRows(state, y) ==
    {r \in rain_df : IsSubstr(lower(state), lower(r.SUBDIVISION)) /\ r.YEAR = y}

\* mutant of NationalRows: the fallback averages the records of every year
NationalRowsAnyYear(y) == rain_df

\* line 233: any record of that year
NationalRows(y) == {r \in rain_df : r.YEAR = y}

RECURSIVE SumAnnual(_)
SumAnnual(rows) == IF rows = {} THEN 0
                   ELSE LET r == CHOOSE x \in rows : TRUE
                        IN  r.ANNUAL + SumAnnual(rows \ {r})

\* ANNUAL.dropna().mean() in hundredths of a millimetre (the two decimals the
\* answer prints); NaN when every ANNUAL of the subset is missing
MeanOf(total, n) == IF n = 0 THEN NaN ELSE (200 * total + n) \div (2 * n)
MeanAnnual(rows) ==
    MeanOf(SumAnnual({r \in rows : r.ANNUAL # NaN}),
           Cardinality({r \in rows : r.ANNUAL # NaN}))

\* lines 220-237: the first tier whose subset is not empty sets val
FirstTier(exact, contains, national) ==
    IF exact # {} THEN [tier |-> "exact", subset |-> exact]
    ELSE IF contains # {} THEN [tier |-> "contains", subset |-> contains]
    ELSE IF national # {} THEN [tier |-> "national", subset |-> national]
    ELSE [tier |-> "none", subset |-> {}]

RainResolve(state, sm, y) ==
    FirstTier(ExactRowsOf(sm, y), ContainsRows(state, y), NationalRows(y))

\* line 238: data[y]; <<>> is None
DataValue(m) == IF m = NaN THEN <<>> ELSE <<m>>

\* one iteration of the loop over years: data[y], the subset the value was
\* averaged over and the tier that produced it
EntryOf(y, res) ==
    [year |-> y, tier |-> res.tier, subset |-> res.subset,
     val |-> IF res.tier = "none" THEN <<>> ELSE DataValue(MeanAnnual(res.subset))]
RainEntry(state, sm, y) == EntryOf(y, RainResolve(state, sm, y))

\* mutant of ProvOf: the national fallback leaves no provenance entry
ProvOfSilentFallback(state, y, t, sm) ==
    IF t = "none" \/ t = "national" THEN <<>>
    ELSE <<[tier |-> t, year |-> y, name |-> IF t = "exact" THEN sm[1] ELSE state]>>

\* the provenance entries appended by the iteration (lines 224, 230, 237)
ProvOf(state, y, t, sm) ==
    IF t = "none" THEN <<>>
    ELSE <<[tier |-> t, year |-> y,
            name |-> IF t = "exact" THEN sm[1]
                     ELSE IF t = "contains" THEN state ELSE <<>>]>>
RainProv(state, sm, y) == ProvOf(state, y, RainResolve(state, sm, y).tier, sm)

\* ------------------------------------------------------------------------
\* compute_top_crops_for_state_and_years
\* ------------------------------------------------------------------------
SeqToSet(seq) == {seq[i] : i \in 1..Len(seq)}

\* line 247: State contains state (case-insensitive) and Crop_Year in years
TopRows(state, ys) ==
    {r \in agri_df : IsSubstr(lower(state), lower(r.State))
                     /\ r.Crop_Year \in SeqToSet(ys)}

RECURSIVE SumProduction(_)
SumProduction(rows) == IF rows = {} THEN 0
                       ELSE LET r == CHOOSE x \in rows : TRUE
                            IN  r.Production + SumProduction(rows \ {r})

\* groupby("Crop")["Production"].sum()
CropTotal(rows, c) == SumProduction({r \in rows : r.Crop = c})

\* sort_values(ascending=False): pandas' default sort kind is quicksort, which
\* is not stable, so every order that is descending by total is a possible
\* outcome; crops with equal totals come in any order
DescOrders(rows) ==
    LET cs == {r.Crop : r \in rows}
        n == Cardinality(cs)
    IN  {p \in [1..n -> cs] :
            /\ \A i, j \in 1..n : i # j => p[i] # p[j]
            /\ \A i \in 1..(n-1) : CropTotal(rows, p[i]) >= CropTotal(rows, p[i+1])}

\* .head(top_m)
HeadN(seq, n) == SubSeq(seq, 1, Min(n, Len(seq)))

\* the possible results: sequences of [crop, total]
TopCrops(state, ys, m) ==
    LET rows == TopRows(state, ys)
    IN  IF rows = {} THEN {<<>>}
        ELSE {HeadN([i \in 1..Len(p) |-> [crop |-> p[i], total |-> CropTotal(rows, p[i])]], m)
                : p \in DescOrders(rows)}

\* provenance of the call: one entry when agri_df has a State column
TopProv(state, ys) ==
    IF agri_df # {} THEN <<[tier |-> "agri", year |-> 0, name |-> state]>> ELSE <<>>

\* ------------------------------------------------------------------------
\* district_extremes_for_crop
\* ------------------------------------------------------------------------
DistrictRows(state, c, y) ==
    {r \in agri_df : /\ IsSubstr(lower(state), lower(r.State))
                     /\ lower(r.Crop) = lower(c)
                     /\ r.Crop_Year = y}

DistrictTotal(rows, d) == SumProduction({r \in rows : r.District = d})

\* idxmax / idxmin over the groups in sorted district order: first extreme wins
district_extremes_for_crop(state, c, y) ==
    LET rows == DistrictRows(state, c, y)
        ds == {r.District : r \in rows}
        hi == CHOOSE d \in ds :
                 \A e \in ds \ {d} : \/ DistrictTotal(rows, d) > DistrictTotal(rows, e)
                                     \/ (DistrictTotal(rows, d) = DistrictTotal(rows, e)
                                         /\ StrLess(d, e))
        lo == CHOOSE d \in ds :
                 \A e \in ds \ {d} : \/ DistrictTotal(rows, d) < DistrictTotal(rows, e)
                                     \/ (DistrictTotal(rows, d) = DistrictTotal(rows, e)
                                         /\ StrLess(d, e))
    IN  IF rows = {} THEN <<>>
        ELSE <<[district |-> hi, total |-> DistrictTotal(rows, hi)],
               [district |-> lo, total |-> DistrictTotal(rows, lo)]>>

DistrictProv(state, c, y) ==
    IF agri_df # {} THEN <<[tier |-> "district", year |-> y, name |-> state]>> ELSE <<>>


\* ------------------------------------------------------------------------
\* Bounds and input pools
\* ------------------------------------------------------------------------
MaxAgriRows == 2
MaxRainRows == 2
MaxLocWords == 2

AgriRow(st, d, c, y, p) ==
    [State |-> st, District |-> d, Crop |-> c, Crop_Year |-> y, Production |-> p]
RainRow(sd, y, a) == [SUBDIVISION |-> sd, YEAR |-> y, ANNUAL |-> a]

AgriPool ==
    { AgriRow(Kerala, <<"K","a">>, Rice, 2019, 5),
      AgriRow(Kerala, <<"K","b">>, Ragi, 2019, 5),
      AgriRow(Kerala, <<"K","b">>, Rice, 2018, 7),
      AgriRow(Goa,    <<"G","a">>, Rice, NaN,  3) }

RainPool ==
    { RainRow(KERALA,     2020, 10),
      RainRow(KERALA,     2021, NaN),
      RainRow(KONKAN_GOA, 2020, 20),
      RainRow(BIHAR,      2020, 30) }

LocWords == {Kerala, w_goa, w_kerla}

Hints == { <<>>,
           w_2015,
           w_last \o SP \o w_2 \o SP \o w_years,
           w_last \o SP \o w_1 \o SP \o w_2015,
           w_top \o SP \o w_1 \o SP \o w_crops,
           w_highest \o SP \o w_rice }

\* " ".join(ws) without the empty pieces
RECURSIVE Join(_)
Join(ws) == IF ws = <<>> THEN <<>>
            ELSE IF ws[1] = <<>> THEN Join(Tail(ws))
            ELSE LET rest == Join(Tail(ws))
                 IN  IF rest = <<>> THEN ws[1] ELSE ws[1] \o SP \o rest

LocPhrases ==
    UNION { {Join(f) : f \in {g \in [1..n -> LocWords] :
                                \A i, j \in 1..n : i # j => g[i] # g[j]}}
            : n \in 0..MaxLocWords }

Queries == {Join(<<l, h>>) : l \in LocPhrases, h \in Hints}

AgriTables == {t \in SUBSET AgriPool : Cardinality(t) <= MaxAgriRows}
RainTables == {t \in SUBSET RainPool : Cardinality(t) <= MaxRainRows}

\* ------------------------------------------------------------------------
\* answer_query
\* ------------------------------------------------------------------------
Line(kind, locs, year, cells, items) ==
    [kind |-> kind, locs |-> locs, year |-> year, cells |-> cells, items |-> items]

\* f"{v:.2f} mm" if v is not None else "N/A"
Cell(v) == IF v = <<>> THEN [na |-> TRUE, v |-> 0] ELSE [na |-> FALSE, v |-> v[1]]

\* rain.get(y) on the dict built by the loop over years
RainGet(data, y) ==
    LET idx == {i \in 1..Len(data) : data[i].year = y}
    IN  IF idx = {} THEN <<>>
        ELSE data[CHOOSE i \in idx : \A j \in idx : j <= i].val

w_crop == <<"c","r","o","p">>
w_lowest == <<"l","o","w","e","s","t">>

\* line 324 / line 352 / line 361
WantsCropsCompare == IsSubstr(w_crop, lower(query)) \/ crop # <<>>
WantsCropsSingle == WantsCropsCompare \/ IsSubstr(w_top, lower(query))
WantsDistrict ==
    /\ crop # <<>>
    /\ \/ IsSubstr(w_highest, lower(query))
       \/ IsSubstr(w_lowest, lower(query))
       \/ IsSubstr(w_district, lower(query))

Init ==
    /\ agri_df \in AgriTables
    /\ rain_df \in RainTables
    /\ sub_match = <<>>
    /\ query \in Queries
    /\ pc = "start"
    /\ states = <<>>
    /\ crop = <<>>
    /\ top_m = 3
    /\ years = <<>>
    /\ explicit_year = <<>>
    /\ li = 0
    /\ yi = 0
    /\ rain = <<<<>>, <<>>>>
    /\ provenance = <<<<>>, <<>>>>
    /\ prov_lines = <<>>
    /\ parts = <<>>
    /\ top = <<<<>>, <<>>>>
    /\ calls = <<>>
    /\ result = <<>>

Answer(kind, hasMeta) ==
    <<[kind |-> kind, parts |-> parts, meta |-> hasMeta, provenance |-> prov_lines]>>

\* lines 287-289 and the direct-substring loop of extract_states
Start ==
    /\ pc = "start"
    /\ query' = strip(query)
    /\ IF query' = <<>>
       THEN /\ result' = <<[kind |-> "empty_query", parts |-> <<>>, meta |-> FALSE,
                            provenance |-> <<>>]>>
            /\ pc' = "done"
            /\ states' = states
       ELSE /\ states' = StatesDirect(query')
            /\ pc' = IF Len(states') >= 2 THEN "extract" ELSE "states_fuzzy"
            /\ result' = result
    /\ UNCHANGED <<sub_match, agri_df, rain_df, crop, top_m, years, explicit_year, li, yi, rain,
                   provenance, prov_lines, parts, top, calls>>

\* extract_states: the fuzzy word loop
StatesFuzzyStep ==
    /\ pc = "states_fuzzy"
    /\ states' = StatesFuzzy(states, query)
    /\ pc' = IF Len(states') >= 2 THEN "extract" ELSE "states_subdiv"
    /\ UNCHANGED <<sub_match, agri_df, rain_df, query, crop, top_m, years, explicit_year, li, yi,
                   rain, provenance, prov_lines, parts, top, calls, result>>

\* extract_states: the rainfall-subdivision loop
StatesSubdivStep ==
    /\ pc = "states_subdiv"
    /\ states' = StatesSubdiv(states, query)
    /\ pc' = "extract"
    /\ UNCHANGED <<sub_match, agri_df, rain_df, query, crop, top_m, years, explicit_year, li, yi,
                   rain, provenance, prov_lines, parts, top, calls, result>>

\* lines 292-299
ExtractRest ==
    /\ pc = "extract"
    /\ crop' = extract_crop(query)
    /\ top_m' = extract_top_m(query)
    /\ explicit_year' = extract_year_from_query(query)
    /\ years' = ResolveYears(query)
    /\ pc' = "branch"
    /\ UNCHANGED <<sub_match, agri_df, rain_df, query, states, li, yi, rain, provenance,
                   prov_lines, parts, top, calls, result>>

\* mutant of NoStates: without a location a country-level rainfall average is
\* computed and returned with a payload
NoStatesCountryLevel ==
    /\ pc = "branch"
    /\ states = <<>>
    /\ calls' = Append(calls, [op |-> "rain", loc |-> <<>>])
    /\ result' = <<[kind |-> "no_state", parts |-> <<>>, meta |-> TRUE,
                    provenance |-> <<>>]>>
    /\ pc' = "done"
    /\ UNCHANGED <<sub_match, agri_df, rain_df, query, states, crop, top_m, years, explicit_year,
                   li, yi, rain, provenance, prov_lines, parts, top>>

\* lines 376-377
NoStates ==
    /\ pc = "branch"
    /\ states = <<>>
    /\ result' = <<[kind |-> "no_state", parts |-> <<>>, meta |-> FALSE,
                    provenance |-> <<>>]>>
    /\ pc' = "done"
    /\ UNCHANGED <<sub_match, agri_df, rain_df, query, states, crop, top_m, years, explicit_year,
                   li, yi, rain, provenance, prov_lines, parts, top, calls>>

AfterRain(l) == IF Len(states) >= 2 /\ l = 1 THEN "rain2" ELSE "compose"

\* the call of compute_avg_rainfall_for_years for location l, up to the loop
RainCall(l) ==
    /\ \/ (pc = "branch" /\ Len(states) >= 1 /\ l = 1)
       \/ (pc = "rain2" /\ l = 2)
    /\ years' = IF pc = "branch" /\ years = <<>>
                THEN extract_last_n_years(query) ELSE years
    /\ calls' = Append(calls, [op |-> "rain", loc |-> states[l]])
    /\ sub_match' = SubMatch(states[l])
    /\ li' = l
    /\ yi' = 1
    /\ pc' = IF years' = <<>> THEN AfterRain(l) ELSE "rain_loop"
    /\ UNCHANGED <<agri_df, rain_df, query, states, crop, top_m, explicit_year, rain,
                   provenance, prov_lines, parts, top, result>>

\* one iteration of  for y in years  (lines 217-238)
RainYear ==
    /\ pc = "rain_loop"
    /\ LET y == years[yi]
           st == states[li]
       IN  /\ rain' = [rain EXCEPT ![li] = Append(@, RainEntry(st, sub_match, y))]
           /\ provenance' = [provenance EXCEPT ![li] = @ \o RainProv(st, sub_match, y)]
    /\ yi' = yi + 1
    /\ pc' = IF yi = Len(years) THEN AfterRain(li) ELSE "rain_loop"
    /\ UNCHANGED <<sub_match, agri_df, rain_df, query, states, crop, top_m, years, explicit_year,
                   li, prov_lines, parts, top, calls, result>>

\* lines 311-322
ComposeCompare ==
    /\ pc = "compose"
    /\ Len(states) >= 2
    /\ parts' = parts
                \o <<Line("rain_cmp_heading", <<>>, 0, <<>>, years)>>
                \o [i \in 1..Len(years) |->
                      Line("rain_cmp_line", <<states[1], states[2]>>, years[i],
                           <<Cell(RainGet(rain[1], years[i])),
                             Cell(RainGet(rain[2], years[i]))>>, <<>>)]
    /\ prov_lines' = prov_lines \o provenance[1] \o provenance[2]
                     \o <<[tier |-> "visualization", year |-> 0, name |-> <<>>]>>
    /\ pc' = IF WantsCropsCompare THEN "crops" ELSE "return"
    /\ UNCHANGED <<sub_match, agri_df, rain_df, query, states, crop, top_m, years, explicit_year,
                   li, yi, rain, provenance, top, calls, result>>

CropsLine(kind, none, loc, t) ==
    IF t # <<>> THEN Line(kind, <<loc>>, 0, <<>>, t)
    ELSE Line(none, <<loc>>, 0, <<>>, <<>>)

\* lines 324-336
CropsCompare ==
    /\ pc = "crops"
    /\ Len(states) >= 2
    /\ \E t1 \in TopCrops(states[1], years, top_m),
          t2 \in TopCrops(states[2], years, top_m) :
          /\ top' = <<t1, t2>>
          /\ parts' = parts
                      \o <<Line("crops_cmp_heading", <<>>, top_m, <<>>, years),
                           CropsLine("crops_line", "crops_none", states[1], t1),
                           CropsLine("crops_line", "crops_none", states[2], t2)>>
    /\ calls' = calls \o <<[op |-> "top_crops", loc |-> states[1]],
                           [op |-> "top_crops", loc |-> states[2]]>>
    /\ prov_lines' = prov_lines \o TopProv(states[1], years) \o TopProv(states[2], years)
    /\ pc' = "return"
    /\ UNCHANGED <<sub_match, agri_df, rain_df, query, states, crop, top_m, years, explicit_year,
                   li, yi, rain, provenance, result>>

\* lines 346-350
ComposeSingle ==
    /\ pc = "compose"
    /\ Len(states) = 1
    /\ prov_lines' = prov_lines \o provenance[1]
    /\ parts' = parts
                \o <<Line("rain_heading", <<states[1]>>, 0, <<>>, <<>>)>>
                \o [i \in 1..Len(years) |->
                      Line("rain_line", <<states[1]>>, years[i],
                           <<Cell(RainGet(rain[1], years[i]))>>, <<>>)]
    /\ pc' = IF WantsCropsSingle THEN "crops"
             ELSE IF WantsDistrict THEN "district" ELSE "return"
    /\ UNCHANGED <<sub_match, agri_df, rain_df, query, states, crop, top_m, years, explicit_year,
                   li, yi, rain, provenance, top, calls, result>>

\* lines 352-359
CropsSingle ==
    /\ pc = "crops"
    /\ Len(states) = 1
    /\ \E t \in TopCrops(states[1], years, top_m) :
          /\ top' = [top EXCEPT ![1] = t]
          /\ parts' = parts
                      \o <<Line("crops_heading", <<states[1]>>, top_m, <<>>, years),
                           CropsLine("crops_line", "crops_none", states[1], t)>>
    /\ calls' = Append(calls, [op |-> "top_crops", loc |-> states[1]])
    /\ prov_lines' = prov_lines \o TopProv(states[1], years)
    /\ pc' = IF WantsDistrict THEN "district" ELSE "return"
    /\ UNCHANGED <<sub_match, agri_df, rain_df, query, states, crop, top_m, years, explicit_year,
                   li, yi, rain, provenance, result>>

MaxOf(S) == CHOOSE x \in S : \A y \in S : y <= x

\* line 363: <<>> is None
UseYear == IF years # <<>> THEN <<years[Len(years)]>>
           ELSE IF AGRI_YEARS # {} THEN <<MaxOf(AGRI_YEARS)>> ELSE <<>>

\* lines 361-372
DistrictSingle ==
    /\ pc = "district"
    /\ IF UseYear # <<>> /\ UseYear # <<0>>
       THEN LET y == UseYear[1]
                ex == district_extremes_for_crop(states[1], crop[1], y)
            IN  /\ calls' = Append(calls, [op |-> "district", loc |-> states[1]])
                /\ prov_lines' = prov_lines \o DistrictProv(states[1], crop[1], y)
                /\ parts' = parts
                            \o <<Line("district_heading", <<states[1]>>, y, <<>>, <<>>)>>
                            \o (IF ex # <<>>
                                THEN <<Line("district_high", <<states[1]>>, y, <<>>, <<ex[1]>>),
                                       Line("district_low", <<states[1]>>, y, <<>>, <<ex[2]>>)>>
                                ELSE <<Line("district_none", <<states[1]>>, y, <<>>, <<>>)>>)
       ELSE UNCHANGED <<calls, prov_lines, parts>>
    /\ pc' = "return"
    /\ UNCHANGED <<sub_match, agri_df, rain_df, query, states, crop, top_m, years, explicit_year,
                   li, yi, rain, provenance, top, result>>

\* line 338 / line 373
Return ==
    /\ pc = "return"
    /\ result' = Answer(IF Len(states) >= 2 THEN "compare" ELSE "single", TRUE)
    /\ pc' = "done"
    /\ UNCHANGED <<sub_match, agri_df, rain_df, query, states, crop, top_m, years, explicit_year,
                   li, yi, rain, provenance, prov_lines, parts, top, calls>>

Next ==
    \/ Start
    \/ StatesFuzzyStep
    \/ StatesSubdivStep
    \/ ExtractRest
    \/ NoStates
    \/ \E l \in 1..2 : RainCall(l)
    \/ RainYear
    \/ ComposeCompare
    \/ CropsCompare
    \/ ComposeSingle
    \/ CropsSingle
    \/ DistrictSingle
    \/ Return

Spec == Init /\ [][Next]_vars


\* ------------------------------------------------------------------------
\* Properties
\* ------------------------------------------------------------------------
Extracting == pc \in {"start", "states_fuzzy", "states_subdiv", "extract"}

\* the rainfall rows a location matches in year y: the exact-subdivision
\* filter and the substring-containment filter
MatchingRows(state, y) == ExactRows(state, y) \cup ContainsRows(state, y)

RainEntries == UNION {{<<l, i>> : i \in 1..Len(rain[l])} : l \in 1..2}

\* C1: when the query holds an explicit year token Y (1900-2099), the year
\* list used for every aggregation is exactly <<Y>>, whatever "last N" phrase
\* the query holds and whatever years the datasets hold.
C1_ExplicitYearIsSoleYear ==
    (calls # <<>> /\ explicit_year # <<>>) => years = <<explicit_year[1]>>

\* C2: a requested year for which neither the exact-subdivision filter nor
\* the substring filter yields a rainfall row maps to None, never to a number
\* averaged over rows of other subdivisions.
C2_NoMatchMapsToNone ==
    \A e \in RainEntries :
        MatchingRows(states[e[1]], rain[e[1]][e[2]].year) = {}
            => rain[e[1]][e[2]].val = <<>>

\* C3: in a two-location answer, for every year in which one location has no
\* matching rainfall rows and the other has some, the comparison line of that
\* year shows N/A for the former and a number for the latter.
CmpLines == {i \in 1..Len(parts) : parts[i].kind = "rain_cmp_line"}
C3_OneSidedYearShowsNA ==
    (pc = "done" /\ Len(states) >= 2) =>
        \A i \in CmpLines : \A a \in 1..2 :
            ( /\ MatchingRows(states[a], parts[i].year) = {}
              /\ MatchingRows(states[3-a], parts[i].year) # {} )
            => (parts[i].cells[a].na /\ ~parts[i].cells[3-a].na)

\* C4: when location extraction resolves zero locations for a non-empty
\* query, answer_query returns the no-location guidance message without a
\* payload; no aggregation operation is invoked and no provenance entry or
\* answer line is produced.
C4_NoLocationShortCircuits ==
    (~Extracting /\ states = <<>> /\ query # <<>>) =>
        /\ pc \in {"branch", "done"}
        /\ calls = <<>>
        /\ provenance = <<<<>>, <<>>>>
        /\ prov_lines = <<>>
        /\ parts = <<>>
        /\ pc = "done" => /\ result[1].kind = "no_state"
                          /\ ~result[1].meta
                          /\ result[1].provenance = <<>>
C4_Witness ==
    /\ pc = "done" /\ states = <<>> /\ query # <<>>
    /\ result[1].kind = "no_state"
    /\ rain_df # {} /\ agri_df # {}

\* C5: for every query that resolves at least one location, each section the
\* query asks for appears in the answer (rainfall; top crops when crops are
\* wanted; district extremes when highest/lowest/district is mentioned and a
\* crop was resolved), and a section without data, also when the year list is
\* empty, carries an explicit no-data line.
HasLine(kinds) == \E i \in 1..Len(parts) : parts[i].kind \in kinds
RainSectionShown ==
    /\ HasLine({"rain_heading", "rain_cmp_heading"})
    /\ HasLine({"rain_line", "rain_cmp_line", "rain_none"})
CropsSectionShown ==
    /\ HasLine({"crops_heading", "crops_cmp_heading"})
    /\ HasLine({"crops_line", "crops_none"})
DistrictSectionShown ==
    /\ HasLine({"district_heading"})
    /\ HasLine({"district_high", "district_none"})
C5_RequestedSectionsAppear ==
    (pc = "done" /\ Len(states) >= 1) =>
        /\ RainSectionShown
        /\ WantsCropsCompare => CropsSectionShown
        /\ WantsDistrict => DistrictSectionShown

\* C6: the result of compute_top_crops_for_state_and_years is ordered by
\* descending total production, crops with equal totals are in ascending
\* crop-name order, and it has at most top-N entries.
TopOrdered(t) ==
    /\ Len(t) <= top_m
    /\ \A i \in 1..(Len(t) - 1) :
          \/ t[i].total > t[i+1].total
          \/ (t[i].total = t[i+1].total /\ StrLess(t[i].crop, t[i+1].crop))
NamedStates == {s \in StateSet : IsSubstr(lower(s), lower(query))}
NoYearHints ==
    /\ extract_year_from_query(query) = <<>>
    /\ FirstIdx({k \in 1..Len(lower(query)) : LastNAt(lower(query), k)}) = 0
UnionYears == AGRI_YEARS \cup RAIN_YEARS
Ascending(seq) == \A i \in 1..(Len(seq) - 1) : seq[i] < seq[i+1]
MostRecent(seq, U) ==
    /\ Ascending(seq)
    /\ SeqToSet(seq) \subseteq U
    /\ \A u \in U \ SeqToSet(seq) : \A i \in 1..Len(seq) : u < seq[i]
DefaultWindowCase ==
    ~Extracting /\ query # <<>> /\ Cardinality(NamedStates) = 1 /\ NoYearHints
C7_DefaultWindowIsThree ==
    DefaultWindowCase => (Len(years) = 3 /\ MostRecent(years, UnionYears))

\* C7 as amended: in that case the year list is the min(3, k) most recent of
\* the k years of the union, ascending; its length is 3 only when the union
\* holds at least 3 years, and it is empty when the union is empty.
C7_DefaultWindowIsUpToThree ==
    DefaultWindowCase =>
        /\ Len(years) = Min(3, Cardinality(UnionYears))
        /\ MostRecent(years, UnionYears)
C7_Witness ==
    DefaultWindowCase /\ Cardinality(UnionYears) = 4 /\ Len(years) = 3 /\ pc = "done"

\* C8: any number compute_avg_rainfall_for_years returns for a year y is
\* computed only from rainfall rows whose YEAR equals y, in every tier.
C8_ValueFromRowsOfThatYear ==
    \A e \in RainEntries :
        LET r == rain[e[1]][e[2]]
        IN  /\ r.year = years[e[2]]
            /\ r.val # <<>> =>
                  /\ r.subset # {}
                  /\ \A row \in r.subset : row.YEAR = r.year
                  /\ r.val = <<MeanAnnual(r.subset)>>
C8_Witness ==
    \E e \in RainEntries :
        /\ rain[e[1]][e[2]].val # <<>>
        /\ \E row \in rain_df : row.YEAR # NaN /\ row.YEAR # rain[e[1]][e[2]].year
        /\ pc = "done"

\* C9: each processed year appends exactly one provenance entry when some
\* tier has a non-empty row set, naming the first such tier and the year, and
\* none when every tier is empty; entries are only appended, in the order the
\* years are processed.
IsPrefix(p, q) == Len(p) <= Len(q) /\ SubSeq(q, 1, Len(p)) = p
TierName(state, y) ==
    IF ExactRows(state, y) # {} THEN "exact"
    ELSE IF ContainsRows(state, y) # {} THEN "contains"
    ELSE IF NationalRows(y) # {} THEN "national" ELSE "none"
C9_Step ==
    /\ \A l \in 1..2 : IsPrefix(provenance[l], provenance'[l])
    /\ pc # "rain_loop" => provenance' = provenance
    /\ pc = "rain_loop" =>
          LET t == TierName(states[li], years[yi])
              old == provenance[li]
              new == provenance'[li]
          IN  /\ provenance'[3 - li] = provenance[3 - li]
              /\ IF t = "none" THEN new = old
                 ELSE /\ Len(new) = Len(old) + 1
                      /\ new[Len(new)].tier = t
                      /\ new[Len(new)].year = years[yi]
C9_ProvenanceAppendOnly == [][C9_Step]_vars
C9_Witness ==
    \E l \in 1..2 :
        /\ Len(rain[l]) >= 2 /\ Len(provenance[l]) >= 1
        /\ Len(provenance[l]) < Len(rain[l])
        /\ pc = "done"

\* C10: extract_states returns at most 2 names; state names that are
\* substrings of the query come first, longest first; then fuzzy word matches
\* against state names at 0.75; then rainfall subdivisions that are
\* substrings; a later tier runs only while fewer than 2 names are accepted
\* and never displaces an accepted name.
LongestFirst(seq, cands) ==
    /\ SeqToSet(seq) \subseteq cands
    /\ Len(seq) = Min(2, Cardinality(cands))
    /\ \A i \in 1..(Len(seq) - 1) : Len(seq[i]) >= Len(seq[i+1])
    /\ \A c \in cands \ SeqToSet(seq) : \A i \in 1..Len(seq) : Len(c) <= Len(seq[i])
Added(old, new) == {new[i] : i \in (Len(old)+1)..Len(new)}
C10_Step ==
    /\ IsPrefix(states, states')
    /\ Len(states') <= 2
    /\ ~(pc \in {"start", "states_fuzzy", "states_subdiv"}) => states' = states
    /\ (pc = "start" /\ pc' # "done") =>
          /\ LongestFirst(states', {s \in StateSet : IsSubstr(lower(s), lower(query'))})
          /\ (pc' = "states_fuzzy") = (Len(states') < 2)
    /\ pc = "states_fuzzy" =>
          /\ Len(states) < 2
          /\ \A x \in Added(states, states') :
                /\ x \in StateSet
                /\ \E i \in 1..Len(findall_words(query, 1)) :
                      RatioAtLeast(ratio(x, title(findall_words(query, 1)[i])), 75)
          /\ (pc' = "states_subdiv") = (Len(states') < 2)
    /\ pc = "states_subdiv" =>
          /\ Len(states) < 2
          /\ \A x \in Added(states, states') :
                x \in SubdivSet /\ IsSubstr(lower(x), lower(query))
          /\ \/ Len(states') = 2
             \/ \A x \in SubdivSet :
                   IsSubstr(lower(x), lower(query)) => InSeq(x, states')
C11_NoLocationTwice ==
    ~Extracting =>
        /\ \A i, j \in 1..Len(states) :
              i # j => lower(states[i]) # lower(states[j])
        /\ (pc = "done" /\ result[1].kind = "compare") =>
              lower(states[1]) # lower(states[2])

====
